---- MODULE Spec2Model ----
(***************************************************************************)
(* CheckSyntaxPlugin (src/src/CheckSyntaxPlugin.ts): the post-emit syntax  *)
(* check of a bundler's output.  One plugin instance is constructed from   *)
(* its options; every afterEmit hook call collects the emitted assets,     *)
(* fans out one asynchronous check per surviving file, joins them with     *)
(* Promise.all and hands this.errors to printErrors.                       *)
(*                                                                         *)
(* Strings are sequences of one-character strings, so that split('?'),     *)
(* path.resolve and the two regular expressions are computed, not assumed. *)
(***************************************************************************)
EXTENDS Integers, Sequences, FiniteSets, TLC

\* ------------------------------------------------------------------------
\* Bounds of the model
\* ------------------------------------------------------------------------
\* afterEmit passes on one plugin instance (watch-mode rebuilds)
MaxPasses == 2
\* assets of one compilation
MaxAssets == 2

\* ------------------------------------------------------------------------
\* Values
\* ------------------------------------------------------------------------
\* options.ecmaVersion left out: the falsy operand of `||`
NoVersion == 0

\* ------------------------------------------------------------------------
\* Strings
\* ------------------------------------------------------------------------
EndsWith(s, suf) ==
  /\ Len(s) >= Len(suf)
  /\ SubSeq(s, Len(s) - Len(suf) + 1, Len(s)) = suf

Contains(s, pat) ==
  \E i \in 1..(Len(s) - Len(pat) + 1) : SubSeq(s, i, i + Len(pat) - 1) = pat

\* const HTML_REGEX = /\.html$/
HTML_REGEX(s) == EndsWith(s, <<".", "h", "t", "m", "l">>)

\* JS_REGEX without its end anchor: /\.(?:js|mjs|cjs|jsx)/
JS_REGEX_Unanchored(s) ==
  \/ Contains(s, <<".", "j", "s">>)
  \/ Contains(s, <<".", "m", "j", "s">>)
  \/ Contains(s, <<".", "c", "j", "s">>)

\* export const JS_REGEX = /\.(?:js|mjs|cjs|jsx)$/
JS_REGEX(s) ==
  \/ EndsWith(s, <<".", "j", "s">>)
  \/ EndsWith(s, <<".", "m", "j", "s">>)
  \/ EndsWith(s, <<".", "c", "j", "s">>)
  \/ EndsWith(s, <<".", "j", "s", "x">>)

\* the asset name used as it is, query included
SplitQuery_Identity(name) == name

\* a.name.split('?')[0]: everything before the first '?'
SplitQuery(name) ==
  IF \E i \in 1..Len(name) : name[i] = "?"
  THEN LET first == CHOOSE i \in 1..Len(name) :
                       /\ name[i] = "?"
                       /\ \A j \in 1..(i - 1) : name[j] # "?"
       IN SubSeq(name, 1, first - 1)
  ELSE name

\* the working directory path.resolve makes relative paths absolute with
Cwd == <<"/", "w">>

IsAbsolute(p) == Len(p) > 0 /\ p[1] = "/"

\* path.resolve(from, to) on a single pair of segments without '.' or '..':
\* the right-most absolute segment wins, empty segments are skipped and a
\* relative result is resolved against the working directory
PathJoin(a, b) == IF b = <<>> THEN a ELSE a \o <<"/">> \o b

resolve(from, to) ==
  IF IsAbsolute(to) THEN to
  ELSE IF IsAbsolute(from) THEN PathJoin(from, to)
  ELSE PathJoin(PathJoin(Cwd, from), to)

\* ------------------------------------------------------------------------
\* External collaborators (utils.js, generateError.js, generateHtmlScripts.js,
\* printErrors.js, acorn, browserslist-to-es-version)
\* ------------------------------------------------------------------------
\* An exclusion setting: absent, a single rule or an ordered list of rules.
\* A rule is a literal pattern searched for in the path.
NoExclude == [kind |-> "undefined", rules |-> <<>>]
OneRule(pat) == [kind |-> "rule", rules |-> <<pat>>]
RuleList(pats) == [kind |-> "list", rules |-> pats]

\* ExclusionMatcher.isExcluded: absent rules exclude nothing, otherwise the
\* subject is excluded when any rule matches it
checkIsExclude(path, exclude) ==
  /\ exclude.kind # "undefined"
  /\ \E i \in 1..Len(exclude.rules) : Contains(path, exclude.rules[i])

\* VersionResolver: the edition each known target supports (0: unrecognised)
TargetVersion(t) ==
  CASE t = "ie 11" -> 5
    [] t = "chrome 100" -> 2018
    [] OTHER -> 0

TargetsResolvable(targets) ==
  /\ Len(targets) > 0
  /\ \A i \in 1..Len(targets) : TargetVersion(targets[i]) # 0

\* the minimal edition compatible with every target; the call throws, and
\* yields no version, when the targets are not resolvable
browserslistToESVersion(targets) ==
  IF ~TargetsResolvable(targets) THEN NoVersion
  ELSE CHOOSE v \in {TargetVersion(targets[i]) : i \in 1..Len(targets)} :
         \A j \in 1..Len(targets) : v <= TargetVersion(targets[j])

\* The grammar parser: the edition a piece of code needs.
\*   "es5"     var f = function (a) { return a.b; }
\*   "es2020"  const f = (a) => a?.b;
MinVersion(code) == IF code = "es2020" THEN 2020 ELSE 5

\* parse(code, {ecmaVersion}) returns normally iff the grammar accepts code
ParseAccepts(code, version) == version >= MinVersion(code)

\* the AcornParseError parse throws
AcornParseError(code) == [message |-> "Unexpected token", pos |-> code]

\* ScriptExtractor: the inline script bodies of a document in document order;
\* <script src=...> elements are not expanded
RECURSIVE getHtmlScripts(_)
getHtmlScripts(html) ==
  IF html = <<>> THEN <<>>
  ELSE IF Head(html).src THEN getHtmlScripts(Tail(html))
  ELSE <<Head(html).code>> \o getHtmlScripts(Tail(html))

\* filepath.replace(rootPath, ''): the first occurrence of rootPath removed
RelativePath(filepath, rootPath) ==
  IF rootPath # <<>> /\ Contains(filepath, rootPath)
  THEN LET i == CHOOSE k \in 1..Len(filepath) :
                  /\ k + Len(rootPath) - 1 <= Len(filepath)
                  /\ SubSeq(filepath, k, k + Len(rootPath) - 1) = rootPath
                  /\ \A j \in 1..(k - 1) :
                       SubSeq(filepath, j, j + Len(rootPath) - 1) # rootPath
       IN SubSeq(filepath, 1, i - 1)
            \o SubSeq(filepath, i + Len(rootPath), Len(filepath))
  ELSE filepath

NullError == [kind |-> "null"]

\* DiagnosticBuilder: the finished diagnostic, or null when the
\* (filepath, diagnostic) pair is excluded
generateError(err, code, filepath, exclude, rootPath) ==
  IF checkIsExclude(filepath, exclude)
  THEN NullError
  ELSE [kind |-> "error",
        path |-> RelativePath(filepath, rootPath),
        message |-> err.message,
        excerpt |-> code]

\* ------------------------------------------------------------------------
\* The inputs the model draws from
\* ------------------------------------------------------------------------
\* emitted assets (compilation.getAssets()): a name and whether it has a source
AssetList ==
  << [name |-> <<"a", ".", "j", "s">>, source |-> TRUE],
     [name |-> <<"a", ".", "j", "s", "?", "v">>, source |-> TRUE],
     [name |-> <<"b", ".", "h", "t", "m", "l">>, source |-> TRUE],
     [name |-> <<"c", ".", "j", "s", "o", "n">>, source |-> TRUE],
     [name |-> <<"e", ".", "m", "j", "s">>, source |-> FALSE] >>

\* compilation.outputOptions.path: unset (the empty string) or absolute
OutputPaths == { <<>>, <<"/", "o">> }

\* what a script element of an HTML document is
Inline(code) == [src |-> FALSE, code |-> code]
External(code) == [src |-> TRUE, code |-> code]

\* the content of a file: whether it can be read, its text taken as one
\* script, and its text taken as an HTML document (its script elements)
Script(code) == [readable |-> TRUE, code |-> code, html |-> <<>>]
Document(elems) == [readable |-> TRUE, code |-> "es2020", html |-> elems]
Unreadable == [readable |-> FALSE, code |-> "es5", html |-> <<>>]

ScriptContents == { Unreadable, Script("es5"), Script("es2020") }
DocumentContents ==
  { Unreadable,
    Document(<<Inline("es5"), External("es2020"), Inline("es2020"), Inline("es2020")>>) }

\* the contents the emission can leave at a path
ContentsOf(path) ==
  IF HTML_REGEX(path) THEN DocumentContents
  ELSE IF EndsWith(path, <<".", "j", "s">>) THEN ScriptContents
  ELSE { Script("es2020") }

\* the constructor's options
EcmaVersionOptions == { NoVersion, 5, 2020 }
TargetsOptions ==
  { <<>>, <<"ie 11">>, <<"chrome 100", "ie 11">>, <<"chrome 100">>, <<"ie 11", "nope">> }
ExcludeOptions ==
  { NoExclude,
    OneRule(<<"a", ".", "j", "s">>),
    RuleList(<<<<"z">>, <<".", "h", "t", "m", "l">>>>) }
ExcludeOutputOptions ==
  { NoExclude,
    OneRule(<<"a", ".", "j", "s">>),
    RuleList(<<<<"b", ".">>>>) }
RootPaths == { Cwd }

\* every version setting without exclusions, and every pair of exclusion
\* settings with the version derived from one target
OptionsSet ==
  { o \in [ ecmaVersion : EcmaVersionOptions,
            targets : TargetsOptions,
            exclude : ExcludeOptions,
            excludeOutput : ExcludeOutputOptions,
            rootPath : RootPaths ] :
      \/ o.exclude = NoExclude /\ o.excludeOutput = NoExclude
      \/ o.ecmaVersion = NoVersion /\ o.targets = <<"ie 11">> }

\* ------------------------------------------------------------------------
\* State
\* ------------------------------------------------------------------------
VARIABLES
  options,        \* the options the constructor was called with
  constructed,    \* FALSE when the constructor threw
  errors,         \* this.errors
  ecmaVersion,    \* this.ecmaVersion
  targets,        \* this.targets
  rootPath,       \* this.rootPath
  exclude,        \* this.exclude
  excludeOutput,  \* this.excludeOutput
  outputOptionsPath, \* compilation.outputOptions.path
  disk,           \* the content of the emitted files: path -> content
  assets,         \* compilation.getAssets() of the current pass
  phase,          \* "Idle", "Collecting", "Checking", "Reporting"
  passNo,         \* afterEmit calls so far
  outcome,        \* how the last finished pass ended: "none", "reported", "raised"
  tasks,          \* the check(file) promises in flight or settled
  printed,        \* the printErrors call of the pass being reported
  parseLog,       \* the parse calls since the hook was entered or left
  readLog         \* the file reads since the hook was entered or left

vars ==
  << options, constructed, errors, ecmaVersion, targets, rootPath, exclude,
     excludeOutput, outputOptionsPath, disk, assets, phase, passNo, outcome,
     tasks, printed, parseLog, readLog >>

config == << options, constructed, ecmaVersion, targets, rootPath, exclude, excludeOutput >>
env == << outputOptionsPath, disk >>

\* ------------------------------------------------------------------------
\* constructor
\* ------------------------------------------------------------------------
\* the operands of `||` swapped: the derived version first
ResolveEcmaVersion_TargetsFirst(opts) ==
  IF TargetsResolvable(opts.targets)
  THEN browserslistToESVersion(opts.targets)
  ELSE opts.ecmaVersion

\* options.ecmaVersion || browserslistToESVersion(this.targets)
ResolveEcmaVersion(opts) ==
  IF opts.ecmaVersion # NoVersion
  THEN opts.ecmaVersion
  ELSE browserslistToESVersion(opts.targets)

\* a constructor that swallows the error of browserslistToESVersion
ConstructorThrows_Never(opts) == FALSE

\* the constructor throws exactly when browserslistToESVersion is reached and throws
ConstructorThrows(opts) ==
  opts.ecmaVersion = NoVersion /\ ~TargetsResolvable(opts.targets)

\* const outputPath = compilation.outputOptions.path || 'dist'
OutputPath(p) == IF p # <<>> THEN p ELSE <<"d", "i", "s", "t">>

\* the file an asset name resolves to
FileOf(name, out) == resolve(OutputPath(out), SplitQuery(name))

AllPaths(out) == { FileOf(AssetList[i].name, out) : i \in 1..Len(AssetList) }

\* the files the compiler emits: every path holds some content of its type
Emissions(out) ==
  { d \in [AllPaths(out) -> ScriptContents \cup DocumentContents] :
      \A p \in AllPaths(out) : d[p] \in ContentsOf(p) }

NotPrinted == [called |-> FALSE, errors |-> <<>>, ecmaVersion |-> NoVersion]

Init ==
  /\ options \in OptionsSet
  /\ constructed = ~ConstructorThrows(options)
  /\ errors = <<>>
  /\ targets = options.targets
  /\ exclude = options.exclude
  /\ excludeOutput = options.excludeOutput
  /\ rootPath = options.rootPath
  /\ ecmaVersion = IF constructed THEN ResolveEcmaVersion(options) ELSE NoVersion
  /\ outputOptionsPath \in OutputPaths
  /\ disk \in Emissions(outputOptionsPath)
  /\ assets = <<>>
  /\ phase = "Idle"
  /\ passNo = 0
  /\ outcome = "none"
  /\ tasks = <<>>
  /\ printed = NotPrinted
  /\ parseLog = <<>>
  /\ readLog = {}

\* ------------------------------------------------------------------------
\* Promises
\* ------------------------------------------------------------------------
InFlight(t) == t.pc \notin {"done", "failed"}

\* the check(file) promises the pass `pass` dispatched
TasksOf(ts, pass) == SelectSeq(ts, LAMBDA t : t.pass = pass)

\* Promise.any in place of Promise.all: one fulfilled promise is enough
PromiseAllFulfilled_Any(ts) ==
  ts = <<>> \/ \E i \in 1..Len(ts) : ts[i].pc = "done"

\* await Promise.all(promises) continues once every promise is fulfilled
\* (and throws as soon as one is rejected, see ReadRejects)
PromiseAllFulfilled(ts) == \A i \in 1..Len(ts) : ts[i].pc = "done"

\* settled promises nobody awaits any more are forgotten; those of a pass
\* still being awaited are kept
Forget(ts, awaited) ==
  SelectSeq(ts, LAMBDA t : InFlight(t) \/ t.pass = awaited)

\* ------------------------------------------------------------------------
\* afterEmit hook: Collecting (lines 55-73)
\* ------------------------------------------------------------------------
\* the assets without the source filter
WithSource_All(as) == as

\* .filter((a) => a.source)
WithSource(as) == SelectSeq(as, LAMBDA a : a.source)

\* the map callback without its excludeOutput test
EmittedFile_NoExclude(a, out, exclOut) ==
  resolve(OutputPath(out), SplitQuery(a.name))

\* .map((a) => ...): the resolved file, or '' when excludeOutput matches it
EmittedFile(a, out, exclOut) ==
  LET resourcePath == SplitQuery(a.name)
      file == resolve(OutputPath(out), resourcePath)
  IN IF ~checkIsExclude(file, exclOut) THEN file ELSE <<>>

EmittedAssets(as, out, exclOut) ==
  LET kept == WithSource(as)
  IN [i \in 1..Len(kept) |-> EmittedFile(kept[i], out, exclOut)]

\* emittedAssets.filter((assets) => HTML_REGEX.test(assets) || JS_REGEX.test(assets))
IsCheckedType(file) == HTML_REGEX(file) \/ JS_REGEX(file)

Files(as, out, exclOut) ==
  SelectSeq(EmittedAssets(as, out, exclOut), IsCheckedType)

\* ------------------------------------------------------------------------
\* check(filepath) and tryParse(filepath, code) (lines 85-121)
\* ------------------------------------------------------------------------
\* the second `if` of check without its JS_REGEX test
ScriptBranch_Always(t) == [t EXCEPT !.pc = "readFile", !.pending = <<>>]

\* the second `if` of check: a script is read, anything else is finished
ScriptBranch(t) ==
  IF JS_REGEX(t.file)
  THEN [t EXCEPT !.pc = "readFile", !.pending = <<>>]
  ELSE [t EXCEPT !.pc = "done", !.pending = <<>>]

\* check(filepath) up to its first await
StartCheck(file, pass) ==
  LET t == [pass |-> pass, file |-> file, pc |-> "start", pending |-> <<>>]
  IN IF HTML_REGEX(file)
     THEN [t EXCEPT !.pc = "generateHtmlScripts"]
     ELSE ScriptBranch(t)

\* the fragments handed to tryParse without the exclude test
FragmentsToParse_Unguarded(filepath, htmlScripts, excl) == htmlScripts

\* the fragments of an HTML file that reach tryParse
\* (if (!checkIsExclude(filepath, this.exclude)) await this.tryParse(...))
FragmentsToParse(filepath, htmlScripts, excl) ==
  IF ~checkIsExclude(filepath, excl) THEN htmlScripts ELSE <<>>

\* tryParse deriving the version from the targets again
ParseVersion_Rederived(thisEcmaVersion, thisTargets) ==
  IF TargetsResolvable(thisTargets)
  THEN browserslistToESVersion(thisTargets)
  ELSE thisEcmaVersion

\* the grammar version tryParse hands to parse
ParseVersion(thisEcmaVersion, thisTargets) == thisEcmaVersion

\* the record of one parse(code, {ecmaVersion}) call
ParseCall(t, code, version) ==
  [pass |-> t.pass, file |-> t.file, code |-> code, version |-> version,
   ok |-> ParseAccepts(code, version)]

\* the codes of `codes` whose parse throws: each awaits generateError
Rejected(codes, version) ==
  SelectSeq(codes, LAMBDA c : ~ParseAccepts(c, version))

\* tryParse assigning the list instead of pushing to it
PushError_Overwrite(errs, filepath, code, excl, root) ==
  LET error == generateError(AcornParseError(code), code, filepath, excl, root)
  IN IF error # NullError THEN <<error>> ELSE errs

\* tryParse calling generateError without `exclude`
PushError_NoExclude(errs, filepath, code, excl, root) ==
  LET error == generateError(AcornParseError(code), code, filepath, NoExclude, root)
  IN IF error # NullError THEN Append(errs, error) ELSE errs

\* the catch block's tail: push the diagnostic unless generateError gave null
PushError(errs, filepath, code, excl, root) ==
  LET error == generateError(AcornParseError(code), code, filepath, excl, root)
  IN IF error # NullError THEN Append(errs, error) ELSE errs

RemoveAt(s, k) == SubSeq(s, 1, k - 1) \o SubSeq(s, k + 1, Len(s))

\* ------------------------------------------------------------------------
\* Actions
\* ------------------------------------------------------------------------
\* the assets of one compilation: at most MaxAssets of AssetList, in list order
RECURSIVE Pick(_, _)
Pick(S, i) ==
  IF i > Len(AssetList) THEN <<>>
  ELSE IF i \in S THEN <<AssetList[i]>> \o Pick(S, i + 1)
  ELSE Pick(S, i + 1)

Compilations ==
  { Pick(S, 1) : S \in { T \in SUBSET (1..Len(AssetList)) : Cardinality(T) <= MaxAssets } }

\* The compiler has emitted its assets and calls the afterEmit hook.
AfterEmit ==
  /\ constructed
  /\ phase = "Idle"
  /\ passNo < MaxPasses
  /\ assets' \in Compilations
  /\ phase' = "Collecting"
  /\ passNo' = passNo + 1
  /\ printed' = NotPrinted
  /\ parseLog' = <<>>
  /\ readLog' = {}
  /\ UNCHANGED << config, env, errors, outcome, tasks >>

\* Lines 55-78 up to the await: the files are collected and one check per
\* file is started.
Collect ==
  /\ phase = "Collecting"
  /\ LET files == Files(assets, outputOptionsPath, excludeOutput)
         started == [i \in 1..Len(files) |-> StartCheck(files[i], passNo)]
     IN tasks' = Forget(tasks, passNo) \o started
  /\ phase' = "Checking"
  /\ UNCHANGED << config, env, errors, assets, passNo, outcome, printed,
                  parseLog, readLog >>

\* a promise of check may take a step: outside the synchronous parts of the
\* hook, and not before the continuation of a fulfilled Promise.all
MayStep(i) ==
  /\ i \in 1..Len(tasks)
  /\ phase \in {"Idle", "Checking"}
  /\ ~(phase = "Checking" /\ PromiseAllFulfilled(TasksOf(tasks, passNo)))

Awaited(i) == phase = "Checking" /\ tasks[i].pass = passNo

\* task i has moved to t: the awaited pass keeps it, an orphan that settled
\* is forgotten
Moved(i, t) ==
  LET ts == [tasks EXCEPT ![i] = t]
  IN Forget(ts, IF phase = "Checking" THEN passNo ELSE 0)

\* A read fails: check rejects.  When the hook still awaits it, Promise.all
\* rejects and the hook's promise rejects with it; the other checks go on.
ReadRejects(i) ==
  /\ tasks' = Forget([tasks EXCEPT ![i].pc = "failed"],
                     IF phase = "Checking" /\ ~Awaited(i) THEN passNo ELSE 0)
  /\ IF Awaited(i)
     THEN /\ phase' = "Idle"
          /\ outcome' = "raised"
          /\ assets' = <<>>
          /\ parseLog' = <<>>
          /\ readLog' = {}
     ELSE /\ readLog' = readLog \cup {[pass |-> tasks[i].pass, file |-> tasks[i].file]}
          /\ UNCHANGED << phase, outcome, assets, parseLog >>
  /\ UNCHANGED << config, env, errors, passNo, printed >>

\* generateHtmlScripts(filepath) settles (lines 87-94): the fragments are
\* parsed one after the other, each failure starts generateError.
GenerateHtmlScriptsSettles(i) ==
  /\ MayStep(i)
  /\ tasks[i].pc = "generateHtmlScripts"
  /\ LET t == tasks[i]
         content == disk[t.file]
     IN IF ~content.readable
        THEN ReadRejects(i)
        ELSE LET htmlScripts == getHtmlScripts(content.html)
                 codes == FragmentsToParse(t.file, htmlScripts, exclude)
                 version == ParseVersion(ecmaVersion, targets)
                 failed == Rejected(codes, version)
             IN /\ parseLog' = parseLog
                      \o [k \in 1..Len(codes) |-> ParseCall(t, codes[k], version)]
                /\ readLog' = readLog \cup {[pass |-> t.pass, file |-> t.file]}
                /\ tasks' = Moved(i, IF failed = <<>>
                                     THEN ScriptBranch(t)
                                     ELSE [t EXCEPT !.pc = "tryParseHtml",
                                                    !.pending = failed])
                /\ UNCHANGED << config, env, errors, assets, phase,
                                passNo, outcome, printed >>

\* fs.promises.readFile(filepath) settles (lines 98-99 and 105): the content
\* is parsed, a failure starts generateError.
ReadFileSettles(i) ==
  /\ MayStep(i)
  /\ tasks[i].pc = "readFile"
  /\ LET t == tasks[i]
         content == disk[t.file]
     IN IF ~content.readable
        THEN ReadRejects(i)
        ELSE LET jsScript == content.code
                 version == ParseVersion(ecmaVersion, targets)
             IN /\ parseLog' = Append(parseLog, ParseCall(t, jsScript, version))
                /\ readLog' = readLog \cup {[pass |-> t.pass, file |-> t.file]}
                /\ tasks' = Moved(i, IF ParseAccepts(jsScript, version)
                                     THEN [t EXCEPT !.pc = "done"]
                                     ELSE [t EXCEPT !.pc = "tryParseJs",
                                                    !.pending = <<jsScript>>])
                /\ UNCHANGED << config, env, errors, assets, phase,
                                passNo, outcome, printed >>

\* generateError settles for one failed parse (lines 109-119).
GenerateErrorSettles(i) ==
  /\ MayStep(i)
  /\ tasks[i].pc \in {"tryParseHtml", "tryParseJs"}
  /\ \E k \in 1..Len(tasks[i].pending) :
       LET t == tasks[i]
           left == RemoveAt(t.pending, k)
       IN /\ errors' = PushError(errors, t.file, t.pending[k], exclude, rootPath)
          /\ tasks' = Moved(i, IF left # <<>>
                               THEN [t EXCEPT !.pending = left]
                               ELSE IF t.pc = "tryParseHtml"
                               THEN ScriptBranch(t)
                               ELSE [t EXCEPT !.pc = "done", !.pending = <<>>])
  /\ UNCHANGED << config, env, assets, phase, passNo, outcome, printed,
                  parseLog, readLog >>

\* Promise.all is fulfilled: printErrors(this.errors, this.ecmaVersion) (line 80)
Report ==
  /\ phase = "Checking"
  /\ PromiseAllFulfilled(TasksOf(tasks, passNo))
  /\ printed' = [called |-> TRUE, errors |-> errors, ecmaVersion |-> ecmaVersion]
  /\ phase' = "Reporting"
  /\ UNCHANGED << config, env, errors, assets, passNo, outcome, tasks,
                  parseLog, readLog >>

\* the hook's promise is fulfilled
Return ==
  /\ phase = "Reporting"
  /\ phase' = "Idle"
  /\ outcome' = "reported"
  /\ tasks' = Forget(tasks, 0)
  /\ assets' = <<>>
  /\ printed' = NotPrinted
  /\ parseLog' = <<>>
  /\ readLog' = {}
  /\ UNCHANGED << config, env, errors, passNo >>

Next ==
  \/ AfterEmit
  \/ Collect
  \/ \E i \in 1..Len(tasks) : GenerateHtmlScriptsSettles(i)
  \/ \E i \in 1..Len(tasks) : ReadFileSettles(i)
  \/ \E i \in 1..Len(tasks) : GenerateErrorSettles(i)
  \/ Report
  \/ Return

Spec == Init /\ [][Next]_vars

TypeOK ==
  /\ phase \in {"Idle", "Collecting", "Checking", "Reporting"}
  /\ passNo \in 0..MaxPasses
  /\ outcome \in {"none", "reported", "raised"}

\* ------------------------------------------------------------------------
\* Properties
\* ------------------------------------------------------------------------
Count(s, Test(_)) == Len(SelectSeq(s, Test))

\* the files the current pass dispatched a check for
PassFiles == Files(assets, outputOptionsPath, excludeOutput)

\* the diagnostics of `errs` that name the file `file`
DiagnosticsOf(errs, file) ==
  Count(errs, LAMBDA d : d.path = RelativePath(file, rootPath))

\* the file `file` was read, or some code of it parsed, since the pass began
Touched(file) ==
  \/ \E r \in readLog : r.file = file
  \/ \E k \in 1..Len(parseLog) : parseLog[k].file = file

\* C1: the diagnostic list is empty at the start of each pass's Collecting
\* step, so a pass never reports a diagnostic of an earlier pass.
C1_ErrorsEmptyAtCollecting == phase = "Collecting" => errors = <<>>

\* C2: printErrors is never called while a check dispatched for the pass is
\* unresolved: when it is called, every file of the pass has a check, every
\* check is fulfilled with no generateError outstanding, every file was read
\* and the list handed over is the whole of this.errors.
C2_ReportAfterAllChecks ==
  printed.called =>
    LET ts == TasksOf(tasks, passNo)
    IN /\ Len(ts) = Len(PassFiles)
       /\ \A i \in 1..Len(ts) :
            /\ ts[i].file = PassFiles[i]
            /\ ts[i].pc = "done"
            /\ ts[i].pending = <<>>
            /\ [pass |-> passNo, file |-> ts[i].file] \in readLog
       /\ printed.errors = errors

C2_Witness ==
  /\ phase = "Reporting"
  /\ printed.called
  /\ Len(TasksOf(tasks, passNo)) >= 2
  /\ Len(printed.errors) >= 2

\* C3: a failed read of one file is isolated: no pass raises out of the
\* afterEmit hook.
C3_ReadFailureIsolated == outcome # "raised"

\* C4: a file matched by excludeOutput is never read and never parsed and
\* has no diagnostic, whatever its content.
C4_ExcludedOutputUntouched ==
  \A i \in 1..Len(AssetList) :
    LET file == FileOf(AssetList[i].name, outputOptionsPath)
    IN checkIsExclude(file, excludeOutput) =>
         /\ ~Touched(file)
         /\ DiagnosticsOf(errors, file) = 0
         /\ \A k \in 1..Len(tasks) : tasks[k].file # file

C4_Witness ==
  /\ printed.called
  /\ \E i \in 1..Len(assets) :
       LET file == FileOf(assets[i].name, outputOptionsPath)
       IN /\ assets[i].source
          /\ JS_REGEX(file)
          /\ checkIsExclude(file, excludeOutput)
          /\ disk[file].readable
          /\ ~ParseAccepts(disk[file].code, ecmaVersion)
  /\ Len(PassFiles) >= 1

\* C5: every parse failure of the pass that is not suppressed by `exclude`
\* appears exactly once in the list handed to printErrors: per file, the
\* list holds as many diagnostics as the pass had such failures.
PassFailures(file) ==
  Count(parseLog, LAMBDA e : /\ e.pass = passNo
                             /\ e.file = file
                             /\ ~e.ok
                             /\ ~checkIsExclude(file, exclude))

C5_ExactlyOnce ==
  printed.called =>
    \A file \in AllPaths(outputOptionsPath) :
      DiagnosticsOf(printed.errors, file) = PassFailures(file)

\* C6: a file whose path matches `exclude` has no diagnostic in the list,
\* even when parsing its content fails.
C6_ExcludedNoDiagnostic ==
  \A file \in AllPaths(outputOptionsPath) :
    checkIsExclude(file, exclude) => DiagnosticsOf(errors, file) = 0

C6_Witness ==
  /\ printed.called
  /\ \E k \in 1..Len(parseLog) :
       /\ parseLog[k].pass = passNo
       /\ ~parseLog[k].ok
       /\ checkIsExclude(parseLog[k].file, exclude)

\* C7 as stated: the parser is never invoked on the content of a file whose
\* path matches `exclude`.
C7_ExcludedNeverParsed ==
  \A k \in 1..Len(parseLog) : ~checkIsExclude(parseLog[k].file, exclude)

\* C7 as amended: the parser is never invoked on a fragment of an HTML file
\* whose path matches `exclude`, while every script file of the pass that
\* matches `exclude` has been parsed when the pass reports.
C7_ExcludedHtmlNeverParsed ==
  /\ \A k \in 1..Len(parseLog) :
       EndsWith(parseLog[k].file, <<".", "h", "t", "m", "l">>)
         => ~checkIsExclude(parseLog[k].file, exclude)
  /\ printed.called =>
       \A i \in 1..Len(PassFiles) :
         (/\ ~EndsWith(PassFiles[i], <<".", "h", "t", "m", "l">>)
          /\ checkIsExclude(PassFiles[i], exclude))
           => \E k \in 1..Len(parseLog) :
                parseLog[k].pass = passNo /\ parseLog[k].file = PassFiles[i]

C7_Witness ==
  /\ printed.called
  /\ \E r \in readLog :
       /\ r.pass = passNo
       /\ EndsWith(r.file, <<".", "h", "t", "m", "l">>)
       /\ checkIsExclude(r.file, exclude)
       /\ \E j \in 1..Len(disk[r.file].html) :
            /\ ~disk[r.file].html[j].src
            /\ ~ParseAccepts(disk[r.file].html[j].code, ecmaVersion)

\* C8: a file whose path ends in none of .html, .js, .mjs, .cjs, .jsx is
\* never read, never parsed and has no diagnostic.
CheckedExtensions ==
  { <<".", "h", "t", "m", "l">>, <<".", "j", "s">>, <<".", "m", "j", "s">>,
    <<".", "c", "j", "s">>, <<".", "j", "s", "x">> }

HasCheckedExtension(file) == \E ext \in CheckedExtensions : EndsWith(file, ext)

C8_OnlyHtmlAndScripts ==
  /\ \A r \in readLog : HasCheckedExtension(r.file)
  /\ \A k \in 1..Len(parseLog) : HasCheckedExtension(parseLog[k].file)
  /\ \A k \in 1..Len(tasks) : HasCheckedExtension(tasks[k].file)
  /\ \A file \in AllPaths(outputOptionsPath) :
       ~HasCheckedExtension(file) => DiagnosticsOf(errors, file) = 0

C8_Witness ==
  /\ printed.called
  /\ \E i \in 1..Len(assets) :
       LET file == FileOf(assets[i].name, outputOptionsPath)
       IN /\ assets[i].source
          /\ ~HasCheckedExtension(file)
          /\ ~checkIsExclude(file, excludeOutput)
          /\ ~ParseAccepts(disk[file].code, ecmaVersion)
  /\ Len(PassFiles) >= 1

\* C9: an explicit ecmaVersion is the plugin's grammar version whatever the
\* targets are (and construction then cannot fail); the version derived
\* from the targets is used only when no ecmaVersion is given.
MinTargetVersion(ts) ==
  CHOOSE v \in {TargetVersion(ts[i]) : i \in 1..Len(ts)} :
    \A j \in 1..Len(ts) : v <= TargetVersion(ts[j])

C9_ExplicitVersionWins ==
  /\ options.ecmaVersion # NoVersion =>
       constructed /\ ecmaVersion = options.ecmaVersion
  /\ (options.ecmaVersion = NoVersion /\ constructed) =>
       ecmaVersion = MinTargetVersion(options.targets)

C9_Witness ==
  /\ options.ecmaVersion = 2020
  /\ options.targets = <<"ie 11">>
  /\ ecmaVersion = 2020
  /\ \E k \in 1..Len(parseLog) : parseLog[k].version = 2020 /\ parseLog[k].code = "es2020"

\* C10: the grammar version resolved at construction is the one every parse
\* of every pass and every printErrors call uses.
VersionAtConstruction ==
  IF options.ecmaVersion # NoVersion
  THEN options.ecmaVersion
  ELSE MinTargetVersion(options.targets)

C10_VersionConstant ==
  constructed =>
    /\ ecmaVersion = VersionAtConstruction
    /\ \A k \in 1..Len(parseLog) : parseLog[k].version = VersionAtConstruction
    /\ printed.called => printed.ecmaVersion = VersionAtConstruction

C10_Witness ==
  /\ passNo = MaxPasses
  /\ printed.called
  /\ options.ecmaVersion # NoVersion
  /\ TargetsResolvable(options.targets)
  /\ options.ecmaVersion # MinTargetVersion(options.targets)
  /\ Len(parseLog) >= 2

\* C11: every pass follows Idle -> Collecting -> Checking -> Reporting ->
\* Idle: the phase only ever moves to the next one of this cycle, so no pass
\* leaves Checking without reporting.
C11_PhaseOrder ==
  [][ /\ phase = "Idle" => phase' \in {"Idle", "Collecting"}
      /\ phase = "Collecting" => phase' \in {"Collecting", "Checking"}
      /\ phase = "Checking" => phase' \in {"Checking", "Reporting"}
      /\ phase = "Reporting" => phase' \in {"Reporting", "Idle"} ]_vars

\* C12: without an explicit ecmaVersion, an empty targets list or one with
\* an unrecognised descriptor makes the constructor fail, and no pass ever
\* runs without a resolved grammar version.
KnownTargets == {"ie 11", "chrome 100"}

NoVersionConfigured ==
  /\ options.ecmaVersion = NoVersion
  /\ \/ options.targets = <<>>
     \/ \E i \in 1..Len(options.targets) : options.targets[i] \notin KnownTargets

C12_ConstructionFails ==
  /\ NoVersionConfigured =>
       /\ ~constructed
       /\ passNo = 0
       /\ phase = "Idle"
       /\ tasks = <<>>
       /\ ~printed.called
  /\ passNo > 0 => constructed /\ ecmaVersion # NoVersion
  /\ \A k \in 1..Len(parseLog) : parseLog[k].version # NoVersion

C12_Witness ==
  /\ options.ecmaVersion = NoVersion
  /\ options.targets = <<>>
  /\ ~constructed
  /\ passNo = 0

\* C13: while a pass is Checking, or a check is still in flight, a step
\* leaves ecmaVersion, targets, rootPath, exclude, excludeOutput and the
\* emitted files unchanged, and changes the diagnostic list only by
\* appending to it: the diagnostics already in it stay as they are.
CheckInFlight == \E i \in 1..Len(tasks) : InFlight(tasks[i])

C13_OnlyAppends ==
  [][ (phase = "Checking" \/ CheckInFlight) =>
        /\ ecmaVersion' = ecmaVersion
        /\ targets' = targets
        /\ rootPath' = rootPath
        /\ exclude' = exclude
        /\ excludeOutput' = excludeOutput
        /\ disk' = disk
        /\ Len(errors') \in {Len(errors), Len(errors) + 1}
        /\ SubSeq(errors', 1, Len(errors)) = errors ]_vars

C13_Witness ==
  /\ phase = "Checking"
  /\ Len(errors) >= 2
  /\ \E i \in 1..Len(tasks) : tasks[i].pending # <<>>

\* the checks the current pass dispatched for `file`, the parse calls it has
\* made on it, and the inline scripts of the document at `file`
Dispatched(file) == Count(PassFiles, LAMBDA f : f = file)

ParseAttempts(file) ==
  Count(parseLog, LAMBDA e : e.pass = passNo /\ e.file = file)

InlineScripts(file) == Count(disk[file].html, LAMBDA el : ~el.src)

IsHtml(file) == EndsWith(file, <<".", "h", "t", "m", "l">>)

\* C14 as stated: when the pass reports, every HTML file has had one parse
\* attempt per extracted fragment and every script file exactly one.
C14_ParsePerFragment ==
  printed.called =>
    \A i \in 1..Len(PassFiles) :
      LET file == PassFiles[i]
      IN ParseAttempts(file) =
           Dispatched(file) * (IF IsHtml(file) THEN InlineScripts(file) ELSE 1)

\* the generateError calls not yet settled
RECURSIVE Outstanding(_)
Outstanding(ts) ==
  IF ts = <<>> THEN 0 ELSE Len(Head(ts).pending) + Outstanding(Tail(ts))

\* the diagnostic of a failed parse of `code` in `file`
DiagnosticFor(file, code) ==
  [kind |-> "error", path |-> RelativePath(file, rootPath),
   message |-> "Unexpected token", excerpt |-> code]

\* C14 as amended: when the pass reports, an HTML file not matching
\* `exclude` has had one parse attempt per extracted fragment, an HTML file
\* matching `exclude` none, and a script file exactly one; only codes whose
\* parse failed await generateError; and a step appends a diagnostic exactly
\* when a generateError call settles for a file that `exclude` does not
\* match, so a successful parse or a null result appends nothing.
C14_ParseAndAppend ==
  /\ [](printed.called =>
          \A i \in 1..Len(PassFiles) :
            LET file == PassFiles[i]
            IN ParseAttempts(file) =
                 Dispatched(file) *
                   (IF ~IsHtml(file) THEN 1
                    ELSE IF checkIsExclude(file, exclude) THEN 0
                    ELSE InlineScripts(file)))
  /\ [](\A i \in 1..Len(tasks) : \A k \in 1..Len(tasks[i].pending) :
          ~ParseAccepts(tasks[i].pending[k], ecmaVersion))
  /\ [][ /\ errors' # errors =>
              /\ Outstanding(tasks') = Outstanding(tasks) - 1
              /\ \E i \in 1..Len(tasks) : \E k \in 1..Len(tasks[i].pending) :
                   /\ ~checkIsExclude(tasks[i].file, exclude)
                   /\ errors' = Append(errors,
                                       DiagnosticFor(tasks[i].file, tasks[i].pending[k]))
         /\ Outstanding(tasks') < Outstanding(tasks) =>
              \E i \in 1..Len(tasks) :
                /\ tasks[i].pending # <<>>
                /\ errors' # errors <=> ~checkIsExclude(tasks[i].file, exclude) ]_vars

C14_Witness ==
  /\ printed.called
  /\ Len(printed.errors) >= 3
  /\ \E i \in 1..Len(PassFiles) :
       /\ IsHtml(PassFiles[i])
       /\ ~checkIsExclude(PassFiles[i], exclude)
       /\ ParseAttempts(PassFiles[i]) >= 3
  /\ \E i \in 1..Len(PassFiles) :
       ~IsHtml(PassFiles[i]) /\ ParseAttempts(PassFiles[i]) = 1

\* the name up to its first '?', and the absolute path under the output root
RECURSIVE BeforeQuery(_)
BeforeQuery(name) ==
  IF name = <<>> \/ Head(name) = "?" THEN <<>>
  ELSE <<Head(name)>> \o BeforeQuery(Tail(name))

OutputRoot ==
  IF outputOptionsPath = <<>>
  THEN <<"/", "w", "/", "d", "i", "s", "t">>
  ELSE outputOptionsPath

AbsolutePathOf(name) == OutputRoot \o <<"/">> \o BeforeQuery(name)

HasQuery(name) == \E j \in 1..Len(name) : name[j] = "?"

\* C15: every checked file is the absolute, query-free path of an asset
\* under the output root, and excludeOutput and the file-type filter are
\* applied to that path: an asset with a source is checked exactly when its
\* stripped absolute path is not excluded and has a checked extension, so
\* an asset named a.js?v is parsed as the script a.js.
C15_StrippedAbsolutePath ==
  /\ \A k \in 1..Len(tasks) :
       /\ tasks[k].file[1] = "/"
       /\ ~HasQuery(tasks[k].file)
  /\ phase \in {"Checking", "Reporting"} =>
       \A i \in 1..Len(assets) :
         assets[i].source =>
           LET path == AbsolutePathOf(assets[i].name)
               sameFile == { j \in 1..Len(assets) :
                               /\ assets[j].source
                               /\ AbsolutePathOf(assets[j].name) = path }
               checks == Count(tasks, LAMBDA t : t.pass = passNo /\ t.file = path)
           IN checks = IF /\ ~checkIsExclude(path, excludeOutput)
                          /\ HasCheckedExtension(path)
                       THEN Cardinality(sameFile)
                       ELSE 0
  /\ printed.called =>
       \A i \in 1..Len(assets) :
         LET path == AbsolutePathOf(assets[i].name)
         IN (/\ assets[i].source
             /\ ~checkIsExclude(path, excludeOutput)
             /\ EndsWith(path, <<".", "j", "s">>))
              => \E k \in 1..Len(parseLog) :
                   parseLog[k].pass = passNo /\ parseLog[k].file = path

C15_Witness ==
  /\ printed.called
  /\ outputOptionsPath # <<>>
  /\ \E i \in 1..Len(assets) :
       /\ HasQuery(assets[i].name)
       /\ assets[i].source
       /\ \E k \in 1..Len(parseLog) :
            /\ parseLog[k].pass = passNo
            /\ parseLog[k].file = AbsolutePathOf(assets[i].name)
            /\ ~parseLog[k].ok
  /\ Len(assets) = 1

\* C16: an asset without a source is dropped before exclusion and type
\* filtering: unless another asset with a source resolves to the same file,
\* its file has no check, is never read or parsed and has no diagnostic.
C16_SourcelessDropped ==
  \A i \in 1..Len(assets) :
    LET path == AbsolutePathOf(assets[i].name)
    IN (/\ ~assets[i].source
        /\ \A j \in 1..Len(assets) :
             assets[j].source => AbsolutePathOf(assets[j].name) # path)
         => /\ ~Touched(path)
            /\ \A k \in 1..Len(tasks) :
                 tasks[k].pass = passNo => tasks[k].file # path
            /\ DiagnosticsOf(errors, path) = 0

C16_Witness ==
  /\ printed.called
  /\ Len(PassFiles) >= 1
  /\ \E i \in 1..Len(assets) :
       LET path == AbsolutePathOf(assets[i].name)
       IN /\ ~assets[i].source
          /\ HasCheckedExtension(path)
          /\ ~checkIsExclude(path, excludeOutput)
          /\ disk[path].readable
          /\ ~ParseAccepts(disk[path].code, ecmaVersion)

====
